---- MODULE Spec2Model ----
(***************************************************************************)
(* Kodgen: the multi-pass parse-and-generate driver of CodeGenManager      *)
(* (CodeGenManager.inl), the FileParser entry points it calls              *)
(* (FileParser.cpp) and the worker pool it schedules its tasks on.         *)
(*                                                                         *)
(* Files are small naturals; std::set iteration order is the order of the  *)
(* naturals.  A string the parser inspects is the sequence of its          *)
(* character codes.                                                        *)
(***************************************************************************)
EXTENDS Naturals, Integers, Sequences, FiniteSets, TLC

\* ------------------------------------------------------------------ bounds
MaxFiles == 2
NumWorkers == 2
MaxIterationCount == 2
MaxElapsed == 1
MaxDiagnostics == 2
MaxParsers == 3
MaxIndexes == 3

Files == 1..MaxFiles

\* ----------------------------------------------------------------- helpers
RECURSIVE SortedSeq(_)
\* The elements of a std::set of paths in iteration (ascending) order.
SortedSeq(S) ==
    IF S = {} THEN <<>>
    ELSE LET m == CHOOSE x \in S : \A y \in S : x <= y
         IN <<m>> \o SortedSeq(S \ {m})

Range(s) == {s[i] : i \in 1..Len(s)}

\* ----------------------------------------------------------- std::string
\* A string is the sequence of its character codes.
\* std::string::npos
npos == -1

\* std::string::find(sub): the first position (from 0) where sub occurs.
find(s, sub) ==
    LET hits == {p \in 0..(Len(s) - Len(sub)) :
                    SubSeq(s, p + 1, p + Len(sub)) = sub}
    IN IF hits = {} THEN npos
       ELSE CHOOSE p \in hits : \A q \in hits : p <= q

\* std::string::rfind(sub): the last position (from 0) where sub occurs.
rfind(s, sub) ==
    LET hits == {p \in 0..(Len(s) - Len(sub)) :
                    SubSeq(s, p + 1, p + Len(sub)) = sub}
    IN IF hits = {} THEN npos
       ELSE CHOOSE p \in hits : \A q \in hits : q <= p

\* std::string::substr(pos, n), pos <= size: at most n characters from pos; n
\* is a size_t, so a negative count has wrapped and means "to the end".
substr(s, pos, n) ==
    LET rest == Len(s) - pos
        count == IF n < 0 \/ n > rest THEN rest ELSE n
    IN SubSeq(s, pos + 1, pos + count)

RECURSIVE StrLess(_, _)
\* operator< of std::string.
StrLess(a, b) ==
    IF b = <<>> THEN FALSE
    ELSE IF a = <<>> THEN TRUE
    ELSE IF a[1] # b[1] THEN a[1] < b[1]
    ELSE StrLess(Tail(a), Tail(b))

RECURSIVE SortedStrSeq(_)
\* The elements of a std::set<std::string> in iteration order.
SortedStrSeq(S) ==
    IF S = {} THEN <<>>
    ELSE LET m == CHOOSE x \in S : \A y \in S \ {x} : StrLess(x, y)
         IN <<m>> \o SortedStrSeq(S \ {m})

\* --------------------------------------------------- FileParser entry points
\* "unknown type name '"
unknownTypeNameError ==
    <<117, 110, 107, 110, 111, 119, 110, 32, 116, 121, 112, 101, 32, 110, 97,
      109, 101, 32, 39>>

\* FileParser::splitMacroPattern: the text left of the first '#' and the text
\* right of the last one; two empty strings when there is no '#'.
splitMacroPattern(macroPattern) ==
    LET leftSharpPos == find(macroPattern, <<35>>)
        rightSharpPos == rfind(macroPattern, <<35>>)
        leftText == IF leftSharpPos # 0
                    THEN substr(macroPattern, 0, leftSharpPos) ELSE <<>>
        rightText == IF rightSharpPos # Len(macroPattern)
                     THEN substr(macroPattern, rightSharpPos + 1, npos)
                     ELSE <<>>
    IN IF leftSharpPos = npos THEN << <<>>, <<>> >>
       ELSE IF rightSharpPos = npos THEN << <<>>, <<>> >>
       ELSE <<leftText, rightText>>

\* MacroCodeGenUnitSettings::getHeaderFileFooterMacro: "F<n>_G" for file n.
getHeaderFileFooterMacro(file) == <<70, 48 + file, 95, 71>>

\* The settings of the code generation unit: class footer macro pattern
\* "##N##_G" and generated header file name pattern "##.h".
DefaultSettings ==
    [classFooterMacroPattern |-> <<35, 35, 78, 35, 35, 95, 71>>,
     generatedHeaderFileNamePattern |-> <<35, 35, 46, 104>>]

\* The same with the class footer macro pattern "NG", which has no '#'.
NoSharpSettings ==
    [DefaultSettings EXCEPT !.classFooterMacroPattern = <<78, 71>>]

\* An error string is its format followed by the values put in it.
\* The error string getErrors builds for a diagnostic.
ErrorString(d) ==
    <<"<spelling> (<file>, line <L>, column <C>)", d.spelling, d.file, d.line,
      d.column>>

\* One turn of getErrors' for: the diagnostic is a missing generated macro of
\* the parsed file (the name goes to the not-found set) or an error string.
getErrorsStep(acc, d, toParseFile, settings) ==
    LET split == splitMacroPattern(settings.classFooterMacroPattern)
        leftClassFooterMacroText == split[1]
        rightClassFooterMacroText == split[2]
        fileGeneratedMacroName == getHeaderFileFooterMacro(toParseFile)
        diagnosticMessage == d.spelling
        unknownTypeName ==
            substr(diagnosticMessage, Len(unknownTypeNameError),
                   Len(diagnosticMessage) - 1 - Len(unknownTypeNameError))
    IN IF find(diagnosticMessage, unknownTypeNameError) # npos
          /\ d.file = toParseFile
       THEN IF unknownTypeName = fileGeneratedMacroName
            THEN [acc EXCEPT !.notFound = @ \cup {fileGeneratedMacroName}]
            ELSE IF find(unknownTypeName, leftClassFooterMacroText) # npos
                    /\ find(unknownTypeName, rightClassFooterMacroText) # npos
            THEN [acc EXCEPT !.notFound = @ \cup {unknownTypeName}]
            ELSE [acc EXCEPT !.errors = Append(@, ErrorString(d))]
       ELSE [acc EXCEPT !.errors = Append(@, ErrorString(d))]

RECURSIVE getErrorsLoop(_, _, _, _, _)
\* getErrors' for over the diagnostics, from index i.
getErrorsLoop(acc, diagnostics, i, toParseFile, settings) ==
    IF i > Len(diagnostics) THEN acc
    ELSE getErrorsLoop(getErrorsStep(acc, diagnostics[i], toParseFile, settings),
                       diagnostics, i + 1, toParseFile, settings)

\* FileParser::getErrors: the returned error strings and the value it leaves
\* in notFoundGeneratedMacroNames.
getErrors(toParseFile, diagnostics, settings, notFoundGeneratedMacroNames) ==
    LET classSplit == splitMacroPattern(settings.classFooterMacroPattern)
        headerSplit == splitMacroPattern(settings.generatedHeaderFileNamePattern)
    IN IF classSplit[1] = <<>> /\ classSplit[2] = <<>>
       THEN [errors |-> << <<"failed to split class footer macro pattern">> >>,
             notFound |-> notFoundGeneratedMacroNames]
       ELSE IF headerSplit[1] = <<>> /\ headerSplit[2] = <<>>
       THEN [errors |->
               << <<"failed to split generated header file name pattern">> >>,
             notFound |-> notFoundGeneratedMacroNames]
       ELSE getErrorsLoop([errors |-> <<>>,
                           notFound |-> notFoundGeneratedMacroNames],
                          diagnostics, 1, toParseFile, settings)

\* What the external translation-unit parser and the filesystem answer for
\* one call on a file: whether the file exists, whether a translation unit
\* could be created, the diagnostics of the unit and the errors of the
\* cursor-tree walk.
EnvClean ==
    [exists |-> TRUE, tuOk |-> TRUE, diagnostics |-> <<>>, walkErrors |-> <<>>]

\* The diagnostic "unknown type name '<file footer macro>'" in the file.
MissingFileMacro(file) ==
    [spelling |-> unknownTypeNameError \o getHeaderFileFooterMacro(file)
                     \o <<39>>,
     file |-> file, line |-> 2, column |-> 1]

\* A syntax error ("err") in the file.
SyntaxError(file) ==
    [spelling |-> <<101, 114, 114>>, file |-> file, line |-> 1, column |-> 1]

EnvDiagAndMacro(file) ==
    [exists |-> TRUE, tuOk |-> TRUE,
     diagnostics |-> <<SyntaxError(file), MissingFileMacro(file)>>,
     walkErrors |-> <<>>]

EnvMissingMacro(file) ==
    [exists |-> TRUE, tuOk |-> TRUE,
     diagnostics |-> <<MissingFileMacro(file)>>, walkErrors |-> <<>>]

EnvNoFile ==
    [exists |-> FALSE, tuOk |-> TRUE, diagnostics |-> <<>>,
     walkErrors |-> <<>>]

ParseEnvs(file) == {EnvClean, EnvDiagAndMacro(file), EnvNoFile}

PreParseEnvs(file) == {EnvClean, EnvMissingMacro(file), EnvNoFile}

\* FileParser::prepareForParsing: the new value of notFoundGeneratedMacroNames.
prepareForParsing(toParseFile, env, settings, notFoundGeneratedMacroNames) ==
    IF ~env.exists \/ ~env.tuOk
    THEN notFoundGeneratedMacroNames
    ELSE getErrors(toParseFile, env.diagnostics, settings, {}).notFound

UnknownMacroErrors(notFound) ==
    LET s == SortedStrSeq(notFound)
    IN [i \in 1..Len(s) |-> <<"Unknown macro: <name>", s[i]>>]

\* FileParser::parseFailOnErrors: out_result.errors; the tree is walked only
\* when getErrors returned nothing.
parseFailOnErrors(toParseFile, env, settings) ==
    IF env.exists
    THEN IF env.tuOk
         THEN LET got == getErrors(toParseFile, env.diagnostics, settings, {})
              IN IF got.errors = <<>> /\ got.notFound = {}
                 THEN env.walkErrors
                 ELSE got.errors \o UnknownMacroErrors(got.notFound)
         ELSE << <<"Failed to initialize translation unit for file: <file>",
                   toParseFile>> >>
    ELSE << <<"File <file> doesn't exist.", toParseFile>> >>

\* walksTree without the test of the not-found macro names.
walksTreeWithoutMacroCheck(toParseFile, env, settings) ==
    /\ env.exists
    /\ env.tuOk
    /\ getErrors(toParseFile, env.diagnostics, settings, {}).errors = <<>>

\* FileParser::parseFailOnErrors: whether the cursor tree is visited
\* (pushContext, clang_visitChildren).
walksTree(toParseFile, env, settings) ==
    /\ env.exists
    /\ env.tuOk
    /\ LET got == getErrors(toParseFile, env.diagnostics, settings, {})
       IN got.errors = <<>> /\ got.notFound = {}

\* FileParser::parseIgnoreErrors: out_result.errors; diagnostics are not read.
parseIgnoreErrors(toParseFile, env) ==
    IF env.exists
    THEN IF env.tuOk
         THEN env.walkErrors
         ELSE << <<"Failed to initialize translation unit for file: <file>",
                   toParseFile>> >>
    ELSE << <<"File <file> doesn't exist.", toParseFile>> >>

\* ------------------------------------------------------------------- state
VARIABLES
    toProcessFiles,     \* identifyFilesToProcess' result
    setupOk,            \* checkGenerationSetup's result
    failOnErrors,       \* shouldFailCodeGenerationOnClangErrors
    iterationCount,     \* codeGenUnit.getIterationCount()
    loggerSet,          \* CodeGenManager::logger != nullptr, as last read
    codeGenSettings,    \* codeGenUnit.getSettings()
    gateEffective,      \* whether a paused pool holds its workers back
    parserSettingsInit, \* fileParser.getSettings().init(logger) was called
    macrosFileGenerated, \* generateMacrosFile was called
    duration,           \* genResult.duration, in clock ticks
    pc,                 \* the driver thread's position
    iteration,          \* iterations of the engine's loop started so far
    idx,                \* position of the running range-for in its set
    parsingTaskIndex,
    filesLeftToProcess,
    filesLeftBefore,
    filesToProcessThisIteration,
    fileMacrosToDefine,
    parsingResultsOfFailedFiles,
    parsingTasks,
    generationTasks,
    completed,          \* out_genResult.completed
    parsedFiles,        \* out_genResult.parsedFiles
    logLines,           \* what logger->log received, severity Error
    artifact,           \* GeneratedArtifact(F): its lines
    isRunning,          \* the pool's running/paused flag
    tasks,              \* every task submitted: id |-> task
    hist,               \* per iteration of the strict loop: what happened
    lastErrors,         \* per file: the errors its latest parse returned
    toParseFile,        \* a getErrors call on its own: the file parsed,
    translationUnit,    \*   the diagnostics of its translation unit,
    notFoundGeneratedMacroNames, \* the in/out set of macro names,
    getErrorsReturn,    \*   the returned error strings,
    parserPc,           \*   and whether the call has returned
    fileStatus,         \* a parseFailOnErrors call on its own: what the
                        \*   filesystem and the unit parser answered,
    out_result,         \*   and the result it filled
    clangIndex,         \* per live FileParser object: its _clangIndex
                        \*   (0 is nullptr),
    indexDisposals      \* per index handle created: the number of
                        \*   clang_disposeIndex calls on it

vars ==
    <<toProcessFiles, setupOk, failOnErrors, iterationCount, loggerSet, pc,
      iteration, idx, parsingTaskIndex, filesLeftToProcess, filesLeftBefore,
      filesToProcessThisIteration, fileMacrosToDefine,
      parsingResultsOfFailedFiles, parsingTasks, generationTasks, completed,
      parsedFiles, logLines, artifact, isRunning, tasks, hist, lastErrors,
      codeGenSettings, gateEffective, parserSettingsInit, macrosFileGenerated,
      duration, toParseFile, translationUnit, notFoundGeneratedMacroNames,
      getErrorsReturn, parserPc, fileStatus, out_result, clangIndex,
      indexDisposals>>

config ==
    <<toProcessFiles, setupOk, failOnErrors, iterationCount, codeGenSettings,
      gateEffective, parserSettingsInit, macrosFileGenerated>>

\* The state of a parser call made on its own.
parserArgs ==
    <<toParseFile, translationUnit, notFoundGeneratedMacroNames,
      getErrorsReturn, parserPc, fileStatus, out_result>>

\* The FileParser objects followed on their own, and their index handles.
parserObjects == <<clangIndex, indexDisposals>>

parserCall == <<parserArgs, parserObjects>>

driverVarsButErrors ==
    <<pc, iteration, idx, parsingTaskIndex, filesLeftBefore,
      filesToProcessThisIteration, parsingTasks, generationTasks, completed,
      parsedFiles, logLines, isRunning>>

driverVars == <<driverVarsButErrors, lastErrors>>

\* ------------------------------------------------------------------- tasks
\* A task id is <<kind, iteration, file>>.
TaskId(kind, it, file) == <<kind, it, file>>
Kind(t) == t[1]
IterOf(t) == t[2]
FileOf(t) == t[3]

NoResult == [errors |-> <<>>, walked |-> FALSE, completed |-> FALSE]

\* TaskBase(name, deps): a fresh task, not picked up yet.
NewTask(deps, slot) ==
    [state |-> "Submitted", deps |-> deps, slot |-> slot, step |-> "none",
     errors |-> <<>>, snapVec |-> <<>>, snapSet |-> {}, result |-> NoResult]

\* ThreadPool::submitTask
submitTask(t, deps, slot) == tasks' = (t :> NewTask(deps, slot)) @@ tasks

RunningTasks == {t \in DOMAIN tasks : tasks[t].state = "Running"}

\* A worker may pick the task up.
CanStart(t) ==
    /\ isRunning \/ ~gateEffective
    /\ tasks[t].state = "Submitted"
    /\ \A d \in tasks[t].deps : d \in DOMAIN tasks /\ tasks[d].state = "Done"
    /\ Cardinality(RunningTasks) < NumWorkers

\* ThreadPool::joinWorkers returns.
joinWorkers == \A t \in DOMAIN tasks : tasks[t].state = "Done"

\* The tasks still referenced when an iteration begins: the generation tasks
\* (held by generationTasks); the pool keeps no finished task.
LiveTasks == [t \in {u \in DOMAIN tasks : Kind(u) = "gen"} |-> tasks[t]]

\* The iteration order of the whole input instead of the batch.
BatchSeqOfInput == SortedSeq(toProcessFiles)

\* The order in which every loop of an iteration walks the std::set of the
\* batch.
BatchSeq == SortedSeq(filesToProcessThisIteration)

\* History record of one iteration of the strict loop.
NewHist(batch) ==
    [batch |-> batch, failed |-> {}, parsedOk |-> {}, truncated |-> {},
     generated |-> {}]

\* -------------------------------------------------------------------- Init
\* The driver before run is called.
DriverInit ==
    /\ toProcessFiles = {}
    /\ setupOk = TRUE
    /\ failOnErrors = TRUE
    /\ iterationCount = 0
    /\ loggerSet = FALSE
    /\ parserSettingsInit = FALSE
    /\ macrosFileGenerated = FALSE
    /\ duration = 0
    /\ pc = "run"
    /\ iteration = 0
    /\ idx = 1
    /\ parsingTaskIndex = 1
    /\ filesLeftToProcess = {}
    /\ filesLeftBefore = 0
    /\ filesToProcessThisIteration = {}
    /\ fileMacrosToDefine = <<>>
    /\ parsingResultsOfFailedFiles = <<>>
    /\ parsingTasks = <<>>
    /\ generationTasks = <<>>
    /\ completed = TRUE
    /\ parsedFiles = <<>>
    /\ logLines = <<>>
    /\ artifact = [f \in Files |-> <<>>]
    /\ isRunning = TRUE
    /\ tasks = <<>>
    /\ hist = <<>>
    /\ lastErrors = [f \in Files |-> <<>>]

\* No getErrors call on its own is made.
ParserIdle ==
    /\ toParseFile = 1
    /\ translationUnit = <<>>
    /\ notFoundGeneratedMacroNames = {}
    /\ getErrorsReturn = <<>>
    /\ parserPc = "idle"
    /\ fileStatus = EnvClean
    /\ out_result = NoResult
    /\ clangIndex = <<>>
    /\ indexDisposals = <<>>

Init ==
    /\ DriverInit
    /\ codeGenSettings = DefaultSettings
    /\ gateEffective = TRUE
    /\ ParserIdle

\* ------------------------------------------------------ CodeGenManager::run
\* The file sets identifyFilesToProcess may return: files are interchangeable,
\* so one set of each size.
FileSets == {1..n : n \in 0..MaxFiles}

\* The settings a run is made with.
RunSettings == {DefaultSettings, NoSharpSettings}

\* filesToProcess.size() > 0u with the test dropped.
FilesToGenerateAlways(files) == TRUE

\* filesToProcess.size() > 0u
FilesToGenerate(files) == Cardinality(files) > 0

\* run, then processFiles: the setup check, the files to process (none: nothing
\* is set up), the engine chosen by shouldFailCodeGenerationOnClangErrors and
\* that engine's locals.
Run ==
    /\ pc = "run"
    /\ \E ok \in BOOLEAN, files \in FileSets, strict \in BOOLEAN,
          count \in 0..MaxIterationCount, settings \in RunSettings,
          elapsed \in 0..MaxElapsed :
        /\ setupOk' = ok
        /\ parserSettingsInit' = (ok /\ FilesToGenerate(files))
        /\ macrosFileGenerated' = (ok /\ FilesToGenerate(files))
        /\ IF ~ok
           THEN /\ completed' = FALSE
                /\ pc' = "done"
                /\ UNCHANGED <<toProcessFiles, failOnErrors, iterationCount,
                               filesLeftToProcess, codeGenSettings, duration>>
                /\ files = {} /\ strict /\ count = 0
                /\ settings = DefaultSettings /\ elapsed = 0
           ELSE IF ~FilesToGenerate(files)
           THEN /\ toProcessFiles' = files
                /\ duration' = elapsed
                /\ pc' = "done"
                /\ UNCHANGED <<completed, failOnErrors, iterationCount,
                               filesLeftToProcess, codeGenSettings>>
                /\ strict /\ count = 0 /\ settings = DefaultSettings
           ELSE IF strict
           THEN /\ toProcessFiles' = files
                /\ failOnErrors' = TRUE
                /\ codeGenSettings' = settings
                /\ filesLeftToProcess' = files
                /\ pc' = "loopTop"
                /\ UNCHANGED <<completed, iterationCount, duration>>
                /\ count = 0 /\ elapsed = 0
           ELSE /\ toProcessFiles' = files
                /\ failOnErrors' = FALSE
                /\ iterationCount' = count
                /\ pc' = "lenientTop"
                /\ UNCHANGED <<completed, filesLeftToProcess, codeGenSettings,
                               duration>>
                /\ settings = DefaultSettings /\ elapsed = 0
    /\ UNCHANGED <<loggerSet, gateEffective, parserCall, iteration, idx,
                   parsingTaskIndex, filesLeftBefore,
                   filesToProcessThisIteration, fileMacrosToDefine,
                   parsingResultsOfFailedFiles, parsingTasks, generationTasks,
                   parsedFiles, logLines, artifact, isRunning, tasks, hist,
                   lastErrors>>

\* ------------------------------- CodeGenManager::processFilesFailOnErrors
\* LoopTop with the whole input taken as the batch again.
LoopTopAllFiles ==
    /\ pc = "loopTop"
    /\ parsingResultsOfFailedFiles' = <<>>
    /\ filesLeftBefore' = Cardinality(filesLeftToProcess)
    /\ filesToProcessThisIteration' = toProcessFiles
    /\ filesLeftToProcess' = {}
    /\ isRunning' = FALSE
    /\ fileMacrosToDefine' = [i \in 1..Cardinality(toProcessFiles) |-> {}]
    /\ idx' = 1
    /\ iteration' = iteration + 1
    /\ hist' = Append(hist, NewHist(toProcessFiles))
    /\ pc' = "submitPre"
    /\ tasks' = LiveTasks
    /\ UNCHANGED <<config, loggerSet, parserCall, duration, parsingTaskIndex, parsingTasks, generationTasks,
                   completed, parsedFiles, logLines, artifact, lastErrors>>

\* Top of the do/while body: clear the errors, remember the size of the retry
\* set, move it into this iteration's batch, pause the pool.
LoopTop ==
    /\ pc = "loopTop"
    /\ parsingResultsOfFailedFiles' = <<>>
    /\ filesLeftBefore' = Cardinality(filesLeftToProcess)
    /\ filesToProcessThisIteration' = filesLeftToProcess
    /\ filesLeftToProcess' = {}
    /\ isRunning' = FALSE
    /\ fileMacrosToDefine' = [i \in 1..Cardinality(filesLeftToProcess) |-> {}]
    /\ idx' = 1
    /\ iteration' = iteration + 1
    /\ hist' = Append(hist, NewHist(filesLeftToProcess))
    /\ pc' = "submitPre"
    /\ tasks' = LiveTasks
    /\ UNCHANGED <<config, loggerSet, parserCall, duration, parsingTaskIndex, parsingTasks, generationTasks,
                   completed, parsedFiles, logLines, artifact, lastErrors>>

\* One turn of the pre-parse submission loop.
SubmitPreParse ==
    /\ pc = "submitPre"
    /\ idx <= Len(BatchSeq)
    /\ submitTask(TaskId("pre", iteration, BatchSeq[idx]), {}, idx)
    /\ idx' = idx + 1
    /\ UNCHANGED <<config, loggerSet, parserCall, duration, pc, iteration, parsingTaskIndex, filesLeftToProcess,
                   filesLeftBefore, filesToProcessThisIteration,
                   fileMacrosToDefine, parsingResultsOfFailedFiles,
                   parsingTasks, generationTasks, completed, parsedFiles,
                   logLines, artifact, isRunning, hist, lastErrors>>

\* setIsRunning(true) before the pre-parse barrier.
ResumePreParse ==
    /\ pc = "submitPre"
    /\ idx > Len(BatchSeq)
    /\ isRunning' = TRUE
    /\ pc' = "joinPre"
    /\ UNCHANGED <<config, loggerSet, parserCall, duration, iteration, idx, parsingTaskIndex,
                   filesLeftToProcess, filesLeftBefore,
                   filesToProcessThisIteration, fileMacrosToDefine,
                   parsingResultsOfFailedFiles, parsingTasks, generationTasks,
                   completed, parsedFiles, logLines, artifact, tasks, hist, lastErrors>>

\* JoinPreParse without the wait for the pre-parse tasks.
JoinPreParseNoWait ==
    /\ pc = "joinPre"
    /\ isRunning' = FALSE
    /\ idx' = 1
    /\ pc' = "define"
    /\ UNCHANGED <<config, loggerSet, parserCall, duration, iteration, parsingTaskIndex,
                   filesLeftToProcess, filesLeftBefore,
                   filesToProcessThisIteration, fileMacrosToDefine,
                   parsingResultsOfFailedFiles, parsingTasks, generationTasks,
                   completed, parsedFiles, logLines, artifact, tasks, hist,
                   lastErrors>>

\* The pre-parse barrier returns; the pool is paused again.
JoinPreParse ==
    /\ pc = "joinPre"
    /\ joinWorkers
    /\ isRunning' = FALSE
    /\ idx' = 1
    /\ pc' = "define"
    /\ UNCHANGED <<config, loggerSet, parserCall, duration, iteration, parsingTaskIndex, filesLeftToProcess,
                   filesLeftBefore, filesToProcessThisIteration,
                   fileMacrosToDefine, parsingResultsOfFailedFiles,
                   parsingTasks, generationTasks, completed, parsedFiles,
                   logLines, artifact, tasks, hist, lastErrors>>

\* The lines std::ofstream(path, std::ios::app) adds for a set of macros.
DefineLines(macros) ==
    LET s == SortedStrSeq(macros)
    IN [i \in 1..Len(s) |-> <<"define", s[i]>>]

\* appendDefines writing nothing.
appendDefinesDropped(content, macros) == content

appendDefines(content, macros) == content \o DefineLines(macros)

\* One turn of the "Define generated macros" loop.
DefineMacros ==
    /\ pc = "define"
    /\ idx <= Len(BatchSeq)
    /\ LET file == BatchSeq[idx]
       IN artifact' =
            IF fileMacrosToDefine[idx] # {}
            THEN [artifact EXCEPT
                    ![file] = appendDefines(@, fileMacrosToDefine[idx])]
            ELSE artifact
    /\ idx' = idx + 1
    /\ UNCHANGED <<config, loggerSet, parserCall, duration, pc, iteration, parsingTaskIndex, filesLeftToProcess,
                   filesLeftBefore, filesToProcessThisIteration,
                   fileMacrosToDefine, parsingResultsOfFailedFiles,
                   parsingTasks, generationTasks, completed, parsedFiles,
                   logLines, isRunning, tasks, hist, lastErrors>>

\* The define loop ends; parsingTasks is constructed.
BeginParse ==
    /\ pc = "define"
    /\ idx > Len(BatchSeq)
    /\ parsingTasks' = <<>>
    /\ idx' = 1
    /\ pc' = "submitParse"
    /\ UNCHANGED <<config, loggerSet, parserCall, duration, iteration, parsingTaskIndex, filesLeftToProcess,
                   filesLeftBefore, filesToProcessThisIteration,
                   fileMacrosToDefine, parsingResultsOfFailedFiles,
                   generationTasks, completed, parsedFiles, logLines, artifact,
                   isRunning, tasks, hist, lastErrors>>

\* SubmitParse without the push_back onto parsedFiles.
SubmitParseNotRecorded ==
    /\ pc = "submitParse"
    /\ idx <= Len(BatchSeq)
    /\ LET file == BatchSeq[idx]
           t == TaskId("parse", iteration, file)
       IN /\ submitTask(t, {}, idx)
          /\ parsingTasks' = Append(parsingTasks, t)
    /\ idx' = idx + 1
    /\ UNCHANGED <<config, loggerSet, parserCall, duration, pc, iteration, parsingTaskIndex, filesLeftToProcess,
                   filesLeftBefore, filesToProcessThisIteration,
                   fileMacrosToDefine, parsingResultsOfFailedFiles,
                   generationTasks, completed, logLines, artifact, isRunning,
                   hist, lastErrors, parsedFiles>>

\* One turn of the parse submission loop.
SubmitParse ==
    /\ pc = "submitParse"
    /\ idx <= Len(BatchSeq)
    /\ LET file == BatchSeq[idx]
           t == TaskId("parse", iteration, file)
       IN /\ parsedFiles' = Append(parsedFiles, file)
          /\ submitTask(t, {}, idx)
          /\ parsingTasks' = Append(parsingTasks, t)
    /\ idx' = idx + 1
    /\ UNCHANGED <<config, loggerSet, parserCall, duration, pc, iteration, parsingTaskIndex, filesLeftToProcess,
                   filesLeftBefore, filesToProcessThisIteration,
                   fileMacrosToDefine, parsingResultsOfFailedFiles,
                   generationTasks, completed, logLines, artifact, isRunning,
                   hist, lastErrors>>

\* ResumeParse without setIsRunning(true): the barrier is entered paused.
ResumeParseStillPaused ==
    /\ pc = "submitParse"
    /\ idx > Len(BatchSeq)
    /\ pc' = "joinParse"
    /\ UNCHANGED <<config, loggerSet, parserCall, duration, iteration, idx, parsingTaskIndex,
                   filesLeftToProcess, filesLeftBefore,
                   filesToProcessThisIteration, fileMacrosToDefine,
                   parsingResultsOfFailedFiles, parsingTasks, generationTasks,
                   completed, parsedFiles, logLines, artifact, tasks, hist,
                   lastErrors, isRunning>>

\* setIsRunning(true) before the parse barrier.
ResumeParse ==
    /\ pc = "submitParse"
    /\ idx > Len(BatchSeq)
    /\ isRunning' = TRUE
    /\ pc' = "joinParse"
    /\ UNCHANGED <<config, loggerSet, parserCall, duration, iteration, idx, parsingTaskIndex,
                   filesLeftToProcess, filesLeftBefore,
                   filesToProcessThisIteration, fileMacrosToDefine,
                   parsingResultsOfFailedFiles, parsingTasks, generationTasks,
                   completed, parsedFiles, logLines, artifact, tasks, hist, lastErrors>>

\* JoinParse without the wait for the parse tasks.
JoinParseNoWait ==
    /\ pc = "joinParse"
    /\ isRunning' = FALSE
    /\ idx' = 1
    /\ parsingTaskIndex' = 1
    /\ pc' = "submitGen"
    /\ UNCHANGED <<config, loggerSet, parserCall, duration, iteration, filesLeftToProcess, filesLeftBefore,
                   filesToProcessThisIteration, fileMacrosToDefine,
                   parsingResultsOfFailedFiles, parsingTasks, generationTasks,
                   completed, parsedFiles, logLines, artifact, tasks, hist,
                   lastErrors>>

\* The parse barrier returns; the pool is paused again.
JoinParse ==
    /\ pc = "joinParse"
    /\ joinWorkers
    /\ isRunning' = FALSE
    /\ idx' = 1
    /\ parsingTaskIndex' = 1
    /\ pc' = "submitGen"
    /\ UNCHANGED <<config, loggerSet, parserCall, duration, iteration, filesLeftToProcess, filesLeftBefore,
                   filesToProcessThisIteration, fileMacrosToDefine,
                   parsingResultsOfFailedFiles, parsingTasks, generationTasks,
                   completed, parsedFiles, logLines, artifact, tasks, hist, lastErrors>>

\* bParsingFailed never set: no file is skipped.
ParsingFailedNever(file) == FALSE

\* bParsingFailed: the file is in the retry set.
ParsingFailed(file) == \E failedFile \in filesLeftToProcess : failedFile = file

\* std::ofstream(path): the file is left empty.
truncate(content) == <<>>

\* SubmitGeneration with parsingTaskIndex advanced only for the files that
\* are not skipped.
SubmitGenerationIndexNotAdvanced ==
    /\ pc = "submitGen"
    /\ idx <= Len(BatchSeq)
    /\ LET file == BatchSeq[idx]
           t == TaskId("gen", iteration, file)
       IN IF ParsingFailed(file)
          THEN UNCHANGED <<artifact, tasks, generationTasks, hist,
                           parsingTaskIndex>>
          ELSE /\ artifact' = [artifact EXCEPT ![file] = truncate(@)]
               /\ submitTask(t, {parsingTasks[parsingTaskIndex]}, idx)
               /\ generationTasks' = Append(generationTasks, t)
               /\ hist' = [hist EXCEPT
                             ![iteration].truncated = @ \cup {file},
                             ![iteration].generated = @ \cup {file}]
               /\ parsingTaskIndex' = parsingTaskIndex + 1
    /\ idx' = idx + 1
    /\ UNCHANGED <<config, loggerSet, parserCall, duration, pc, iteration, filesLeftToProcess, filesLeftBefore,
                   filesToProcessThisIteration, fileMacrosToDefine,
                   parsingResultsOfFailedFiles, parsingTasks, completed,
                   parsedFiles, logLines, isRunning, lastErrors>>

\* One turn of the generation loop: a file of the retry set is skipped, any
\* other has its artifact truncated and its generation task submitted.
SubmitGeneration ==
    /\ pc = "submitGen"
    /\ idx <= Len(BatchSeq)
    /\ LET file == BatchSeq[idx]
           t == TaskId("gen", iteration, file)
       IN IF ParsingFailed(file)
          THEN UNCHANGED <<artifact, tasks, generationTasks, hist>>
          ELSE /\ artifact' = [artifact EXCEPT ![file] = truncate(@)]
               /\ submitTask(t, {parsingTasks[parsingTaskIndex]}, idx)
               /\ generationTasks' = Append(generationTasks, t)
               /\ hist' = [hist EXCEPT
                             ![iteration].truncated = @ \cup {file},
                             ![iteration].generated = @ \cup {file}]
    /\ parsingTaskIndex' = parsingTaskIndex + 1
    /\ idx' = idx + 1
    /\ UNCHANGED <<config, loggerSet, parserCall, duration, pc, iteration, filesLeftToProcess, filesLeftBefore,
                   filesToProcessThisIteration, fileMacrosToDefine,
                   parsingResultsOfFailedFiles, parsingTasks, completed,
                   parsedFiles, logLines, isRunning, lastErrors>>

\* setIsRunning(true) before the generation barrier.
ResumeGeneration ==
    /\ pc = "submitGen"
    /\ idx > Len(BatchSeq)
    /\ isRunning' = TRUE
    /\ pc' = "joinGen"
    /\ UNCHANGED <<config, loggerSet, parserCall, duration, iteration, idx, parsingTaskIndex,
                   filesLeftToProcess, filesLeftBefore,
                   filesToProcessThisIteration, fileMacrosToDefine,
                   parsingResultsOfFailedFiles, parsingTasks, generationTasks,
                   completed, parsedFiles, logLines, artifact, tasks, hist, lastErrors>>

\* LoopAgain without the comparison with filesLeftBefore.
LoopAgainNoStallCheck == filesLeftToProcess # {}

\* The condition of the do/while.
LoopAgain ==
    filesLeftToProcess # {} /\ filesLeftBefore # Cardinality(filesLeftToProcess)

\* JoinGeneration without the wait for the generation tasks.
JoinGenerationNoWait ==
    /\ pc = "joinGen"
    /\ pc' = IF LoopAgain THEN "loopTop" ELSE "log"
    /\ UNCHANGED <<config, loggerSet, parserCall, duration, iteration, idx,
                   parsingTaskIndex, filesLeftToProcess, filesLeftBefore,
                   filesToProcessThisIteration, fileMacrosToDefine,
                   parsingResultsOfFailedFiles, parsingTasks, generationTasks,
                   completed, parsedFiles, logLines, artifact, isRunning,
                   tasks, hist, lastErrors>>

\* The generation barrier returns and the loop condition is evaluated.
JoinGeneration ==
    /\ pc = "joinGen"
    /\ joinWorkers
    /\ pc' = IF LoopAgain THEN "loopTop" ELSE "log"
    /\ UNCHANGED <<config, loggerSet, parserCall, duration, iteration, idx, parsingTaskIndex,
                   filesLeftToProcess, filesLeftBefore,
                   filesToProcessThisIteration, fileMacrosToDefine,
                   parsingResultsOfFailedFiles, parsingTasks, generationTasks,
                   completed, parsedFiles, logLines, artifact, isRunning,
                   tasks, hist, lastErrors>>

\* "Log errors": the logger field is read; only with a logger is completed
\* cleared and a line logged.
LogErrors ==
    /\ pc = "log"
    /\ \E logger \in BOOLEAN :
        /\ loggerSet' = logger
        /\ IF logger
           THEN /\ completed' =
                     IF parsingResultsOfFailedFiles # <<>>
                     THEN FALSE ELSE completed
                /\ logLines' = logLines \o parsingResultsOfFailedFiles
           ELSE UNCHANGED <<completed, logLines>>
    /\ pc' = "merge"
    /\ UNCHANGED <<config, parserCall, duration, iteration, idx,
                   parsingTaskIndex, filesLeftToProcess, filesLeftBefore,
                   filesToProcessThisIteration, fileMacrosToDefine,
                   parsingResultsOfFailedFiles, parsingTasks, generationTasks,
                   parsedFiles, artifact, isRunning, tasks, hist, lastErrors>>

\* CodeGenResult::mergeResult over all generation tasks: completed is and-ed.
mergeResult(acc, results) == acc /\ \A i \in 1..Len(results) : results[i].completed

\* "Merge all generation results together" (both engines).
MergeResults ==
    /\ pc = "merge"
    /\ completed' =
         mergeResult(completed,
                     [i \in 1..Len(generationTasks) |->
                        tasks[generationTasks[i]].result])
    /\ \E elapsed \in 0..MaxElapsed : duration' = elapsed
    /\ pc' = "done"
    /\ UNCHANGED <<config, loggerSet, parserCall, iteration, idx, parsingTaskIndex,
                   filesLeftToProcess, filesLeftBefore,
                   filesToProcessThisIteration, fileMacrosToDefine,
                   parsingResultsOfFailedFiles, parsingTasks, generationTasks,
                   parsedFiles, logLines, artifact, isRunning, tasks, hist, lastErrors>>

\* ------------------------------------------------------------ worker steps
\* A worker picks a task up.
Start(t) == tasks' = [tasks EXCEPT ![t].state = "Running"]

\* A worker picks up a pre-parse task.
StartPreParse ==
    \E t \in DOMAIN tasks :
        /\ Kind(t) = "pre"
        /\ CanStart(t)
        /\ Start(t)
        /\ UNCHANGED <<config, loggerSet, parserCall, duration, driverVars, filesLeftToProcess,
                       fileMacrosToDefine, parsingResultsOfFailedFiles,
                       artifact, hist>>

\* preParsingTaskLambda: prepareForParsing fills the slot of the file.
FinishPreParse ==
    \E t \in DOMAIN tasks :
      \E env \in PreParseEnvs(FileOf(t)) :
        /\ Kind(t) = "pre"
        /\ tasks[t].state = "Running"
        /\ fileMacrosToDefine' =
             [fileMacrosToDefine EXCEPT
                ![tasks[t].slot] =
                   prepareForParsing(FileOf(t), env, codeGenSettings, @)]
        /\ tasks' = [tasks EXCEPT ![t].state = "Done"]
        /\ UNCHANGED <<config, loggerSet, parserCall, duration, driverVars, filesLeftToProcess,
                       parsingResultsOfFailedFiles, artifact, hist>>

\* parsingTaskLambda up to the first access to the shared vector: the parser
\* copy runs parseFailOnErrors; with errors, the task reads the vector it is
\* about to push to.
StartParse ==
    \E t \in DOMAIN tasks :
      \E env \in ParseEnvs(FileOf(t)) :
        /\ Kind(t) = "parse"
        /\ CanStart(t)
        /\ LET errors == parseFailOnErrors(FileOf(t), env, codeGenSettings)
           IN /\ tasks' = [tasks EXCEPT
                             ![t].state = "Running",
                             ![t].step = "parsed",
                             ![t].errors = errors,
                             ![t].snapVec =
                                IF errors # <<>>
                                THEN parsingResultsOfFailedFiles ELSE <<>>]
              /\ hist' = [hist EXCEPT
                            ![IterOf(t)].failed =
                               IF errors # <<>> THEN @ \cup {FileOf(t)} ELSE @,
                            ![IterOf(t)].parsedOk =
                               IF errors = <<>> THEN @ \cup {FileOf(t)} ELSE @]
              /\ lastErrors' = [lastErrors EXCEPT ![FileOf(t)] = errors]
        /\ UNCHANGED <<config, loggerSet, parserCall, duration, driverVarsButErrors, filesLeftToProcess,
                       fileMacrosToDefine, parsingResultsOfFailedFiles,
                       artifact>>

\* The pairs parsingTaskLambda pushes for one file.
FailedPairs(file, errors) == [i \in 1..Len(errors) |-> <<file, errors[i]>>]

\* parsingTaskLambda, errors found: the push_back loop writes the vector back
\* and the task reads the retry set it is about to insert into.  Nothing
\* orders this against the same lines of another worker.
RecordErrors ==
    \E t \in DOMAIN tasks :
        /\ Kind(t) = "parse"
        /\ tasks[t].state = "Running"
        /\ tasks[t].step = "parsed"
        /\ tasks[t].errors # <<>>
        /\ parsingResultsOfFailedFiles' =
             tasks[t].snapVec \o FailedPairs(FileOf(t), tasks[t].errors)
        /\ tasks' = [tasks EXCEPT
                       ![t].step = "recorded",
                       ![t].snapVec = <<>>,
                       ![t].snapSet = filesLeftToProcess]
        /\ UNCHANGED <<config, loggerSet, parserCall, duration, driverVars, filesLeftToProcess,
                       fileMacrosToDefine, artifact, hist>>

\* parsingTaskLambda, errors found: the insert writes the retry set back and
\* the task returns its result, errors cleared.
FinishParseFailed ==
    \E t \in DOMAIN tasks :
        /\ Kind(t) = "parse"
        /\ tasks[t].state = "Running"
        /\ tasks[t].step = "recorded"
        /\ filesLeftToProcess' = tasks[t].snapSet \cup {FileOf(t)}
        /\ tasks' = [tasks EXCEPT
                       ![t].state = "Done",
                       ![t].step = "none",
                       ![t].errors = <<>>,
                       ![t].snapSet = {},
                       ![t].result = [NoResult EXCEPT !.errors = <<>>]]
        /\ UNCHANGED <<config, loggerSet, parserCall, duration, driverVars, fileMacrosToDefine,
                       parsingResultsOfFailedFiles, artifact, hist>>

\* parsingTaskLambda, no error: the task returns the walked result.
FinishParseOk ==
    \E t \in DOMAIN tasks :
        /\ Kind(t) = "parse"
        /\ tasks[t].state = "Running"
        /\ tasks[t].step = "parsed"
        /\ tasks[t].errors = <<>>
        /\ tasks' = [tasks EXCEPT
                       ![t].state = "Done",
                       ![t].step = "none",
                       ![t].result = [NoResult EXCEPT !.walked = TRUE]]
        /\ UNCHANGED <<config, loggerSet, parserCall, duration, driverVars, filesLeftToProcess,
                       fileMacrosToDefine, parsingResultsOfFailedFiles,
                       artifact, hist>>

\* The parse task a generation task reads its input from.
DependencyOf(t) == CHOOSE d \in tasks[t].deps : TRUE

\* generationTaskLambda up to getDependencyResult: the task copies the result
\* of its dependency.
StartGeneration ==
    \E t \in DOMAIN tasks :
        /\ Kind(t) = "gen"
        /\ CanStart(t)
        /\ tasks' = [tasks EXCEPT
                       ![t].state = "Running",
                       ![t].step = "read",
                       ![t].errors = tasks[DependencyOf(t)].result.errors]
        /\ UNCHANGED <<config, loggerSet, parserCall, duration, driverVars, filesLeftToProcess,
                       fileMacrosToDefine, parsingResultsOfFailedFiles,
                       artifact, hist>>

\* CodeGenUnit::generateCode: on success the artifact is the unit's output.
generateCode(content, t, ok) ==
    IF ok THEN << <<"generated", IterOf(t)>> >> ELSE content

\* generationTaskLambda: generateCode runs only for a result without errors;
\* otherwise the result stays not completed.
FinishGeneration ==
    \E t \in DOMAIN tasks, ok \in BOOLEAN :
        /\ Kind(t) = "gen"
        /\ tasks[t].state = "Running"
        /\ IF tasks[t].errors = <<>>
           THEN /\ artifact' =
                     [artifact EXCEPT ![FileOf(t)] = generateCode(@, t, ok)]
                /\ tasks' = [tasks EXCEPT
                               ![t].state = "Done",
                               ![t].step = "none",
                               ![t].result =
                                  [NoResult EXCEPT !.completed = ok]]
           ELSE /\ ok = FALSE
                /\ UNCHANGED artifact
                /\ tasks' = [tasks EXCEPT
                               ![t].state = "Done",
                               ![t].step = "none",
                               ![t].errors = <<>>,
                               ![t].result = NoResult]
        /\ UNCHANGED <<config, loggerSet, parserCall, duration, driverVars, filesLeftToProcess,
                       fileMacrosToDefine, parsingResultsOfFailedFiles, hist>>

\* ------------------------------- CodeGenManager::processFilesIgnoreErrors
AllFilesSeq == SortedSeq(toProcessFiles)

\* LenientTop with the loop left one pass early.
LenientTopOnePassLess ==
    /\ pc = "lenientTop"
    /\ IF iteration + 1 < iterationCount
       THEN /\ isRunning' = FALSE
            /\ idx' = 1
            /\ iteration' = iteration + 1
            /\ pc' = "lenientSubmit"
       ELSE /\ pc' = "merge"
            /\ UNCHANGED <<isRunning, idx, iteration>>
    /\ tasks' = IF iteration + 1 < iterationCount THEN LiveTasks ELSE tasks
    /\ UNCHANGED <<config, loggerSet, parserCall, duration, parsingTaskIndex,
                   filesLeftToProcess, filesLeftBefore,
                   filesToProcessThisIteration, fileMacrosToDefine,
                   parsingResultsOfFailedFiles, parsingTasks, generationTasks,
                   completed, parsedFiles, logLines, artifact, hist,
                   lastErrors>>

\* The for over iterationCount: next pass (pool paused) or leave the loop.
LenientTop ==
    /\ pc = "lenientTop"
    /\ IF iteration < iterationCount
       THEN /\ isRunning' = FALSE
            /\ idx' = 1
            /\ iteration' = iteration + 1
            /\ pc' = "lenientSubmit"
       ELSE /\ pc' = "merge"
            /\ UNCHANGED <<isRunning, idx, iteration>>
    /\ tasks' = IF iteration < iterationCount THEN LiveTasks ELSE tasks
    /\ UNCHANGED <<config, loggerSet, parserCall, duration, parsingTaskIndex, filesLeftToProcess,
                   filesLeftBefore, filesToProcessThisIteration,
                   fileMacrosToDefine, parsingResultsOfFailedFiles,
                   parsingTasks, generationTasks, completed, parsedFiles,
                   logLines, artifact, hist, lastErrors>>

\* LenientSubmit with every generation task depending on the parse task of the
\* first file.
LenientSubmitWrongDep ==
    /\ pc = "lenientSubmit"
    /\ idx <= Len(AllFilesSeq)
    /\ LET file == AllFilesSeq[idx]
           p == TaskId("lparse", iteration, file)
           g == TaskId("gen", iteration, file)
           first == TaskId("lparse", iteration, AllFilesSeq[1])
       IN /\ parsedFiles' = Append(parsedFiles, file)
          /\ tasks' =
               (g :> NewTask({first}, idx)) @@ (p :> NewTask({}, idx)) @@ tasks
          /\ generationTasks' = Append(generationTasks, g)
    /\ idx' = idx + 1
    /\ UNCHANGED <<config, loggerSet, parserCall, duration, pc, iteration, parsingTaskIndex, filesLeftToProcess,
                   filesLeftBefore, filesToProcessThisIteration,
                   fileMacrosToDefine, parsingResultsOfFailedFiles,
                   parsingTasks, completed, logLines, artifact, isRunning,
                   hist, lastErrors>>

\* One turn of the inner loop: the parse task, and the generation task that
\* depends on it.
LenientSubmit ==
    /\ pc = "lenientSubmit"
    /\ idx <= Len(AllFilesSeq)
    /\ LET file == AllFilesSeq[idx]
           p == TaskId("lparse", iteration, file)
           g == TaskId("gen", iteration, file)
       IN /\ parsedFiles' = Append(parsedFiles, file)
          /\ tasks' = (g :> NewTask({p}, idx)) @@ (p :> NewTask({}, idx)) @@ tasks
          /\ generationTasks' = Append(generationTasks, g)
    /\ idx' = idx + 1
    /\ UNCHANGED <<config, loggerSet, parserCall, duration, pc, iteration, parsingTaskIndex, filesLeftToProcess,
                   filesLeftBefore, filesToProcessThisIteration,
                   fileMacrosToDefine, parsingResultsOfFailedFiles,
                   parsingTasks, completed, logLines, artifact, isRunning,
                   hist, lastErrors>>

\* setIsRunning(true) at the end of a pass.
LenientResume ==
    /\ pc = "lenientSubmit"
    /\ idx > Len(AllFilesSeq)
    /\ isRunning' = TRUE
    /\ pc' = "lenientJoin"
    /\ UNCHANGED <<config, loggerSet, parserCall, duration, iteration, idx, parsingTaskIndex,
                   filesLeftToProcess, filesLeftBefore,
                   filesToProcessThisIteration, fileMacrosToDefine,
                   parsingResultsOfFailedFiles, parsingTasks, generationTasks,
                   completed, parsedFiles, logLines, artifact, tasks, hist, lastErrors>>

\* LenientJoin without the wait for the tasks of the pass.
LenientJoinNoWait ==
    /\ pc = "lenientJoin"
    /\ pc' = "lenientTop"
    /\ UNCHANGED <<config, loggerSet, parserCall, duration, iteration, idx,
                   parsingTaskIndex, filesLeftToProcess, filesLeftBefore,
                   filesToProcessThisIteration, fileMacrosToDefine,
                   parsingResultsOfFailedFiles, parsingTasks, generationTasks,
                   completed, parsedFiles, logLines, artifact, isRunning,
                   tasks, hist, lastErrors>>

\* joinWorkers at the end of a pass.
LenientJoin ==
    /\ pc = "lenientJoin"
    /\ joinWorkers
    /\ pc' = "lenientTop"
    /\ UNCHANGED <<config, loggerSet, parserCall, duration, iteration, idx, parsingTaskIndex,
                   filesLeftToProcess, filesLeftBefore,
                   filesToProcessThisIteration, fileMacrosToDefine,
                   parsingResultsOfFailedFiles, parsingTasks, generationTasks,
                   completed, parsedFiles, logLines, artifact, isRunning,
                   tasks, hist, lastErrors>>

\* A worker picks up a parse task of the lenient engine.
StartParseLenient ==
    \E t \in DOMAIN tasks :
        /\ Kind(t) = "lparse"
        /\ CanStart(t)
        /\ Start(t)
        /\ UNCHANGED <<config, loggerSet, parserCall, duration, driverVars, filesLeftToProcess,
                       fileMacrosToDefine, parsingResultsOfFailedFiles,
                       artifact, hist>>

\* parsingTaskLambda of the lenient engine: the result keeps its errors.
FinishParseLenient ==
    \E t \in DOMAIN tasks :
      \E env \in ParseEnvs(FileOf(t)) :
        /\ Kind(t) = "lparse"
        /\ tasks[t].state = "Running"
        /\ tasks' = [tasks EXCEPT
                       ![t].state = "Done",
                       ![t].result =
                          [NoResult EXCEPT
                             !.errors = parseIgnoreErrors(FileOf(t), env),
                             !.walked = env.exists /\ env.tuOk]]
        /\ UNCHANGED <<config, loggerSet, parserCall, duration, driverVars, filesLeftToProcess,
                       fileMacrosToDefine, parsingResultsOfFailedFiles,
                       artifact, hist>>

\* -------------------------------------------------------------------- Next
Next ==
    \/ Run
    \/ LoopTop
    \/ SubmitPreParse
    \/ ResumePreParse
    \/ JoinPreParse
    \/ DefineMacros
    \/ BeginParse
    \/ SubmitParse
    \/ ResumeParse
    \/ JoinParse
    \/ SubmitGeneration
    \/ ResumeGeneration
    \/ JoinGeneration
    \/ LogErrors
    \/ MergeResults
    \/ StartPreParse
    \/ FinishPreParse
    \/ StartParse
    \/ RecordErrors
    \/ FinishParseFailed
    \/ FinishParseOk
    \/ StartGeneration
    \/ FinishGeneration
    \/ LenientTop
    \/ LenientSubmit
    \/ LenientResume
    \/ LenientJoin
    \/ StartParseLenient
    \/ FinishParseLenient

Spec == Init /\ [][Next]_vars

\* -------------------------------------------- the pool without its gate
\* The same run on a pool whose workers ignore setIsRunning(false).
InitNoGate ==
    /\ DriverInit
    /\ codeGenSettings = DefaultSettings
    /\ gateEffective = FALSE
    /\ ParserIdle

SpecNoGate == InitNoGate /\ [][Next]_vars

\* The steps of the thread that called run.
DriverStep ==
    \/ Run
    \/ LoopTop
    \/ SubmitPreParse
    \/ ResumePreParse
    \/ JoinPreParse
    \/ DefineMacros
    \/ BeginParse
    \/ SubmitParse
    \/ ResumeParse
    \/ JoinParse
    \/ SubmitGeneration
    \/ ResumeGeneration
    \/ JoinGeneration
    \/ LogErrors
    \/ MergeResults
    \/ LenientTop
    \/ LenientSubmit
    \/ LenientResume
    \/ LenientJoin

\* The steps of the workers of the pool.
WorkerStep ==
    \/ StartPreParse
    \/ FinishPreParse
    \/ StartParse
    \/ RecordErrors
    \/ FinishParseFailed
    \/ FinishParseOk
    \/ StartGeneration
    \/ FinishGeneration
    \/ StartParseLenient
    \/ FinishParseLenient

\* The run under fair scheduling: the driver thread is not starved, and a
\* worker that can pick a task up or finish one eventually does; every parse
\* and every generation returns.
FairSpec ==
    /\ Init
    /\ [][Next]_vars
    /\ WF_vars(DriverStep)
    /\ WF_vars(WorkerStep)

\* ------------------------------------------ FileParser::getErrors on its own
\* The spellings of the diagnostics a translation unit may hold:
\* "unknown type name 'X'" for X the footer macro of file 1 ("F1_G"), "C_G",
\* "A_G" and "T"; "unknown type name 'C_G'?" (text after the name),
\* "e:unknown type name 'C_G'" (text before), "unknown type name '" and "err".
DiagSpellings ==
    {unknownTypeNameError \o X \o <<39>> :
        X \in {getHeaderFileFooterMacro(1), <<67, 95, 71>>, <<65, 95, 71>>,
               <<84>>}}
    \cup {unknownTypeNameError \o <<67, 95, 71>> \o <<39, 63>>,
          <<101, 58>> \o unknownTypeNameError \o <<67, 95, 71>> \o <<39>>,
          unknownTypeNameError,
          <<101, 114, 114>>}

\* A diagnostic is located in input file 1 or in a header outside the input
\* (file 0).
Diagnostics ==
    [spelling : DiagSpellings, file : {0, 1}, line : {1}, column : {1}]

DiagnosticSets ==
    UNION {[1..n -> Diagnostics] : n \in 0..MaxDiagnostics}

\* Settings with the class footer macro patterns "##N##_G", "C#_G", "NG", "#"
\* and "#N#", and with the generated header file name pattern ".h".
ParserSettings ==
    {[DefaultSettings EXCEPT !.classFooterMacroPattern = pattern] :
        pattern \in {<<35, 35, 78, 35, 35, 95, 71>>, <<67, 35, 95, 71>>,
                     <<78, 71>>, <<35>>, <<35, 78, 35>>}}
    \cup {[DefaultSettings EXCEPT
             !.generatedHeaderFileNamePattern = <<46, 104>>]}

\* A parser about to run getErrors on a translation unit, the not-found set
\* cleared as prepareForParsing and parseFailOnErrors pass it.
ParserInit ==
    /\ DriverInit
    /\ gateEffective = TRUE
    /\ codeGenSettings \in ParserSettings
    /\ toParseFile \in Files
    /\ translationUnit \in DiagnosticSets
    /\ notFoundGeneratedMacroNames = {}
    /\ getErrorsReturn = <<>>
    /\ parserPc = "idle"
    /\ fileStatus = EnvClean
    /\ out_result = NoResult
    /\ clangIndex = <<>>
    /\ indexDisposals = <<>>

\* The call of getErrors.
CallGetErrors ==
    /\ parserPc = "idle"
    /\ LET got == getErrors(toParseFile, translationUnit, codeGenSettings,
                            notFoundGeneratedMacroNames)
       IN /\ getErrorsReturn' = got.errors
          /\ notFoundGeneratedMacroNames' = got.notFound
    /\ parserPc' = "returned"
    /\ UNCHANGED <<config, loggerSet, driverVars, duration, filesLeftToProcess,
                   fileMacrosToDefine, parsingResultsOfFailedFiles, artifact,
                   hist, tasks, toParseFile, translationUnit, fileStatus,
                   out_result, parserObjects>>

\* What the filesystem, clang_parseTranslationUnit and the cursor visitor can
\* answer to one call of parseFailOnErrors on the unit.
FileStatuses ==
    {[exists |-> e, tuOk |-> u, diagnostics |-> translationUnit,
      walkErrors |-> w] :
        e \in BOOLEAN, u \in BOOLEAN,
        w \in {<<>>, << <<"walk error">> >>}}

\* The call of parseFailOnErrors.
CallParseFailOnErrors ==
    /\ parserPc = "idle"
    /\ \E env \in FileStatuses :
          /\ fileStatus' = env
          /\ out_result' =
                [NoResult EXCEPT
                   !.errors = parseFailOnErrors(toParseFile, env,
                                                codeGenSettings),
                   !.walked = walksTree(toParseFile, env, codeGenSettings)]
    /\ parserPc' = "parsed"
    /\ UNCHANGED <<config, loggerSet, driverVars, duration, filesLeftToProcess,
                   fileMacrosToDefine, parsingResultsOfFailedFiles, artifact,
                   hist, tasks, toParseFile, translationUnit,
                   notFoundGeneratedMacroNames, getErrorsReturn,
                   parserObjects>>

ParserNext == CallGetErrors \/ CallParseFailOnErrors

ParserSpec == ParserInit /\ [][ParserNext]_vars

\* ------------------------------------------- FileParser objects on their own
\* The storage a FileParser object can be constructed in.
Parsers == 1..MaxParsers

\* The handle clang_createIndex returns: one never returned before.
createIndex == Cardinality(DOMAIN indexDisposals) + 1

\* No FileParser object exists, no index was created.
IndexInit ==
    /\ DriverInit
    /\ codeGenSettings = DefaultSettings
    /\ gateEffective = TRUE
    /\ ParserIdle

\* FileParser::FileParser(): a new index.
DefaultConstruct ==
    \E this \in Parsers \ DOMAIN clangIndex :
        /\ createIndex <= MaxIndexes
        /\ clangIndex' = (this :> createIndex) @@ clangIndex
        /\ indexDisposals' = (createIndex :> 0) @@ indexDisposals
        /\ UNCHANGED <<config, loggerSet, driverVars, duration,
                       filesLeftToProcess, fileMacrosToDefine,
                       parsingResultsOfFailedFiles, artifact, hist, tasks,
                       parserArgs>>

\* The copy constructor handing out the index of its source.
CopyConstructSharingIndex ==
    \E this \in Parsers \ DOMAIN clangIndex, other \in DOMAIN clangIndex :
        /\ clangIndex' = (this :> clangIndex[other]) @@ clangIndex
        /\ UNCHANGED <<config, loggerSet, driverVars, duration,
                       filesLeftToProcess, fileMacrosToDefine,
                       parsingResultsOfFailedFiles, artifact, hist, tasks,
                       parserArgs, indexDisposals>>

\* FileParser::FileParser(FileParser const&): the index is not copied, a new
\* one is created.
CopyConstruct ==
    \E this \in Parsers \ DOMAIN clangIndex, other \in DOMAIN clangIndex :
        /\ createIndex <= MaxIndexes
        /\ clangIndex' = (this :> createIndex) @@ clangIndex
        /\ indexDisposals' = (createIndex :> 0) @@ indexDisposals
        /\ UNCHANGED <<config, loggerSet, driverVars, duration,
                       filesLeftToProcess, fileMacrosToDefine,
                       parsingResultsOfFailedFiles, artifact, hist, tasks,
                       parserArgs>>

\* FileParser::FileParser(FileParser&&): the index of the source is taken and
\* the source is left with nullptr.
MoveConstruct ==
    \E this \in Parsers \ DOMAIN clangIndex, other \in DOMAIN clangIndex :
        /\ clangIndex' =
              (this :> clangIndex[other]) @@ [clangIndex EXCEPT ![other] = 0]
        /\ UNCHANGED <<config, loggerSet, driverVars, duration,
                       filesLeftToProcess, fileMacrosToDefine,
                       parsingResultsOfFailedFiles, artifact, hist, tasks,
                       parserArgs, indexDisposals>>

\* FileParser::~FileParser(): the index is disposed unless it is nullptr.
Destruct ==
    \E this \in DOMAIN clangIndex :
        /\ indexDisposals' =
              IF clangIndex[this] # 0
              THEN [indexDisposals EXCEPT ![clangIndex[this]] = @ + 1]
              ELSE indexDisposals
        /\ clangIndex' =
              [p \in DOMAIN clangIndex \ {this} |-> clangIndex[p]]
        /\ UNCHANGED <<config, loggerSet, driverVars, duration,
                       filesLeftToProcess, fileMacrosToDefine,
                       parsingResultsOfFailedFiles, artifact, hist, tasks,
                       parserArgs>>

IndexNext ==
    \/ DefaultConstruct
    \/ CopyConstruct
    \/ MoveConstruct
    \/ Destruct

IndexSpec == IndexInit /\ [][IndexNext]_vars

\* ------------------------------------------------------------------ claims
\* The strict engine was entered (processFilesFailOnErrors runs or has run).
StrictRun == pc # "run" /\ setupOk /\ failOnErrors /\ toProcessFiles # {}

\* The lenient engine was entered.
LenientRun == pc # "run" /\ setupOk /\ ~failOnErrors /\ toProcessFiles # {}

\* The do/while of the strict engine has been left.
LoopLeft == pc \in {"log", "merge", "done"}

\* C1: the strict engine never starts more than |files| + 1 iterations of its
\* do/while, whatever the parses answer.
C1_Termination ==
    StrictRun => iteration <= Cardinality(toProcessFiles) + 1

\* C1 witness: a strict run over two files has ended after two iterations.
C1_Witness ==
    /\ StrictRun
    /\ pc = "done"
    /\ Cardinality(toProcessFiles) = 2
    /\ iteration = 2

\* C2: each iteration of the strict loop after the first processes strictly
\* fewer files than the iteration before it: the retry set an iteration leaves
\* is smaller than that iteration's batch whenever it is admitted again.
C2_ProgressMonotonicity ==
    StrictRun =>
        \A i \in 2..Len(hist) :
            Cardinality(hist[i].batch) < Cardinality(hist[i - 1].batch)

\* C2 witness: a second iteration has started, on files that failed in the
\* first.
C2_Witness ==
    /\ StrictRun
    /\ Len(hist) = 2
    /\ hist[2].batch # {}
    /\ hist[2].batch \subseteq hist[1].failed

\* The tasks of one kind of the current iteration that a worker has picked up.
Started(kind) ==
    {t \in DOMAIN tasks :
        Kind(t) = kind /\ IterOf(t) = iteration /\ tasks[t].state # "Submitted"}

\* Every file of the batch has its task of this kind, and it is Done.
AllBatchDone(kind) ==
    \A f \in filesToProcessThisIteration :
        /\ TaskId(kind, iteration, f) \in DOMAIN tasks
        /\ tasks[TaskId(kind, iteration, f)].state = "Done"

\* C3: in a strict iteration no parse task starts before every pre-parse task
\* of the iteration is Done, and no artifact is truncated and no generation
\* task starts before every parse task of the iteration is Done.
C3_PhaseOrdering ==
    (StrictRun /\ iteration >= 1) =>
        /\ Started("parse") # {} => AllBatchDone("pre")
        /\ (hist[iteration].truncated # {} \/ Started("gen") # {})
              => AllBatchDone("parse")

\* C3 witness: a generation task runs in an iteration of two files, one of
\* which failed its parse.
C3_Witness ==
    /\ StrictRun
    /\ Cardinality(filesToProcessThisIteration) = 2
    /\ hist[iteration].failed # {}
    /\ \E t \in Started("gen") : tasks[t].state = "Running"

\* The parse task whose result the generation task g is written to consume.
ParseOf(g) ==
    TaskId(IF failOnErrors THEN "parse" ELSE "lparse", IterOf(g), FileOf(g))

\* C4: in both engines a generation task of the running iteration has been
\* picked up only if the parse task of its file is Done, its result stored.
C4_DependencyRespect ==
    (StrictRun \/ LenientRun) =>
        \A g \in Started("gen") :
            /\ ParseOf(g) \in DOMAIN tasks
            /\ tasks[ParseOf(g)].state = "Done"
            /\ tasks[g].deps = {ParseOf(g)}

\* C4 witness: in the lenient engine a generation task runs while the parse
\* task of another file has not finished.
C4_Witness ==
    /\ LenientRun
    /\ \E g \in Started("gen") : tasks[g].state = "Running"
    /\ \E p \in DOMAIN tasks : Kind(p) = "lparse" /\ tasks[p].state # "Done"

\* The generation tasks that reported success.
SucceededGenerations ==
    {g \in DOMAIN tasks :
        Kind(g) = "gen" /\ tasks[g].state = "Done" /\ tasks[g].result.completed}

\* C5: in a strict run, from the moment the generation task of F has succeeded
\* to the end of the run, GeneratedArtifact(F) is exactly the output of that
\* task: no '#define' line of any pre-parse round is in it.
C5_NoStaleDefines ==
    StrictRun =>
        \A g \in SucceededGenerations :
            artifact[FileOf(g)] = << <<"generated", IterOf(g)>> >>

\* C5 witness: the run is over after two iterations, and a file that failed in
\* the first and whose artifact received defines in the second was generated
\* in the second.
C5_Witness ==
    /\ StrictRun
    /\ pc = "done"
    /\ iteration = 2
    /\ \E g \in SucceededGenerations :
        /\ IterOf(g) = 2
        /\ FileOf(g) \in hist[1].failed
        /\ fileMacrosToDefine[tasks[g].slot] # {}

\* C6: when a strict run is over, completed is true exactly when the retry set
\* is empty and every generation task reported success.
C6_CompletedIffNothingLeft ==
    (StrictRun /\ pc = "done") =>
        (completed <=>
            /\ filesLeftToProcess = {}
            /\ \A i \in 1..Len(generationTasks) :
                  tasks[generationTasks[i]].result.completed)

\* The file failed its parse in every iteration whose batch it was in.
NeverResolved(f) ==
    /\ \E i \in 1..Len(hist) : f \in hist[i].batch
    /\ \A i \in 1..Len(hist) : f \in hist[i].batch => f \in hist[i].failed

\* The number of Error lines logged for this file and error.
LogCount(f, e) == Cardinality({i \in 1..Len(logLines) : logLines[i] = <<f, e>>})

\* C7: when a strict run is over, for a file that failed every parse it got,
\* completed is false and each error of its last parse was logged once.
C7_NeverResolvedReported ==
    (StrictRun /\ pc = "done") =>
        \A f \in toProcessFiles :
            NeverResolved(f) =>
                /\ completed = FALSE
                /\ \A e \in Range(lastErrors[f]) : LogCount(f, e) = 1

\* C8: a file whose parse failed in an iteration has its artifact not truncated
\* and no generation task in that iteration; it is in the next batch when some
\* file of the batch parsed, and the loop stops when none did.
C8_RetrySemantics ==
    StrictRun =>
        /\ \A i \in 1..Len(hist) :
              /\ hist[i].failed \cap hist[i].truncated = {}
              /\ hist[i].failed \cap hist[i].generated = {}
        /\ \A i \in 1..(Len(hist) - 1) :
              /\ hist[i].parsedOk # {}
              /\ hist[i].failed \subseteq hist[i + 1].batch
        /\ (LoopLeft /\ hist[Len(hist)].failed # {})
              => hist[Len(hist)].parsedOk = {}

\* C9: a strict run over one file whose first parse fails runs two iterations
\* and ends with the file parsed and generated.
C9_SingleFileTwoRounds ==
    (StrictRun /\ pc = "done" /\ toProcessFiles = {1} /\ hist[1].failed = {1}) =>
        /\ Len(hist) = 2
        /\ filesLeftToProcess = {}
        /\ 1 \in hist[2].generated

\* C10: a strict run in which every parse failed runs exactly two iterations
\* and ends with completed false.
C10_StallOnSecondIteration ==
    (StrictRun /\ pc = "done"
        /\ \A i \in 1..Len(hist) : hist[i].failed = hist[i].batch) =>
        /\ Len(hist) = 2
        /\ completed = FALSE

\* The split of the class footer macro pattern and of the generated header
\* file name pattern both gave some text.
PatternsSplit ==
    /\ splitMacroPattern(codeGenSettings.classFooterMacroPattern)
          # << <<>>, <<>> >>
    /\ splitMacroPattern(codeGenSettings.generatedHeaderFileNamePattern)
          # << <<>>, <<>> >>

\* C11: getErrors on the translation unit of F returns no error string for a
\* diagnostic located in a file other than F.
C11_DiagnosticLocality ==
    parserPc = "returned" =>
        \A i \in 1..Len(translationUnit) :
            translationUnit[i].file # toParseFile =>
                ErrorString(translationUnit[i]) \notin Range(getErrorsReturn)

\* The X of a spelling "unknown type name 'X'".
NameIn(spelling) ==
    SubSeq(spelling, Len(unknownTypeNameError) + 1, Len(spelling) - 1)

\* The spelling is "unknown type name 'X'" for some X.
IsUnknownTypeName(spelling) ==
    /\ Len(spelling) > Len(unknownTypeNameError)
    /\ SubSeq(spelling, 1, Len(unknownTypeNameError)) = unknownTypeNameError
    /\ spelling[Len(spelling)] = 39

\* The diagnostic is expected: "unknown type name 'X'" located in F, with X
\* the file footer macro of F or X containing both halves of the class footer
\* macro pattern.
ExpectedDiagnostic(d) ==
    LET split == splitMacroPattern(codeGenSettings.classFooterMacroPattern)
    IN /\ IsUnknownTypeName(d.spelling)
       /\ d.file = toParseFile
       /\ \/ NameIn(d.spelling) = getHeaderFileFooterMacro(toParseFile)
          \/ /\ find(NameIn(d.spelling), split[1]) # npos
             /\ find(NameIn(d.spelling), split[2]) # npos

\* C12: getErrors puts the X of every expected diagnostic, and nothing else,
\* in the not-found set, and returns one error string
\* "<spelling> (<file>, line L, column C)" for every other diagnostic, in
\* order, and nothing else.
C12_DiagnosticClassification ==
    (parserPc = "returned" /\ PatternsSplit) =>
        LET others == SelectSeq(translationUnit,
                                LAMBDA d : ~ExpectedDiagnostic(d))
        IN /\ notFoundGeneratedMacroNames =
                {NameIn(translationUnit[i].spelling) :
                    i \in {j \in 1..Len(translationUnit) :
                              ExpectedDiagnostic(translationUnit[j])}}
           /\ getErrorsReturn =
                [i \in 1..Len(others) |-> ErrorString(others[i])]

\* The parse tasks that are between their first read and their last write of
\* the shared vector and retry set.
InSharedState ==
    {t \in DOMAIN tasks :
        /\ Kind(t) = "parse"
        /\ tasks[t].state = "Running"
        /\ tasks[t].errors # <<>>}

\* The number of entries of parsingResultsOfFailedFiles for this file and error.
RecordedCount(f, e) ==
    Cardinality({i \in 1..Len(parsingResultsOfFailedFiles) :
                    parsingResultsOfFailedFiles[i] = <<f, e>>})

\* The parse barrier of the current iteration has returned.
AfterParseBarrier ==
    iteration >= 1 /\ pc \in {"submitGen", "joinGen", "log", "merge", "done"}

\* C13: at most one parse task at a time is inside its accesses to the retry
\* set and to parsingResultsOfFailedFiles, and after the parse barrier every
\* file that failed in the iteration is in the retry set with each of its
\* errors recorded once.
C13_SerialisedSharedState ==
    StrictRun =>
        /\ Cardinality(InSharedState) <= 1
        /\ AfterParseBarrier =>
              \A f \in hist[iteration].failed :
                  /\ f \in filesLeftToProcess
                  /\ \A e \in Range(lastErrors[f]) : RecordedCount(f, e) = 1

\* C14: on a pool that does not hold its workers back while paused, a strict
\* iteration still runs pre-parse before parse and parse before truncation and
\* generation, a generation task is picked up only when the parse task it
\* depends on is Done and its artifact was truncated, and the driver reads the
\* retry set only when no parse task is unfinished.
C14_GateIndependence ==
    (StrictRun /\ ~gateEffective /\ iteration >= 1) =>
        /\ Started("parse") # {} => AllBatchDone("pre")
        /\ (hist[iteration].truncated # {} \/ Started("gen") # {})
              => AllBatchDone("parse")
        /\ \A g \in Started("gen") :
              /\ tasks[ParseOf(g)].state = "Done"
              /\ FileOf(g) \in hist[iteration].truncated
              /\ tasks[g].state = "Running" => artifact[FileOf(g)] = <<>>
        /\ AfterParseBarrier => AllBatchDone("parse")

\* C14 witness: a worker runs a generation task while the pool is paused and
\* the driver is still submitting the generation tasks of the batch.
C14_Witness ==
    /\ StrictRun
    /\ pc = "submitGen"
    /\ ~isRunning
    /\ idx <= Len(BatchSeq)
    /\ \E g \in Started("gen") : tasks[g].state = "Running"

\* The files whose artifact was truncated by the driver and whose generation
\* task is not Done yet.
TruncatedPending ==
    {f \in Files :
        \E i \in 1..Len(hist) :
            /\ f \in hist[i].truncated
            /\ \/ TaskId("gen", i, f) \notin DOMAIN tasks
               \/ tasks[TaskId("gen", i, f)].state # "Done"}

\* The pre-parse and parse tasks a worker is running.
RunningReaders ==
    {t \in RunningTasks : Kind(t) \in {"pre", "parse"}}

\* C15: in a strict run no pre-parse or parse task is running while an
\* artifact has been truncated and its generation task is not Done.
C15_ArtifactReadWindow ==
    StrictRun => (RunningReaders # {} => TruncatedPending = {})

\* C15 witness: a pre-parse task of the second iteration runs after an
\* artifact was truncated and generated in the first.
C15_Witness ==
    /\ StrictRun
    /\ iteration = 2
    /\ hist[1].truncated # {}
    /\ \E t \in RunningReaders : Kind(t) = "pre"

\* The number of times the file was pushed to parsedFiles.
ParsedCount(f) ==
    Cardinality({i \in 1..Len(parsedFiles) : parsedFiles[i] = f})

C17_IterationBarrier ==
    (StrictRun \/ LenientRun) =>
        \A t \in DOMAIN tasks :
            (IterOf(t) = iteration /\ tasks[t].state # "Submitted") =>
                \A u \in DOMAIN tasks :
                    IterOf(u) < iteration => tasks[u].state = "Done"

\* C17 witness: in the second pass of the lenient engine the parse task of a
\* file runs, the generation task of the same file in the first pass Done.
C17_Witness ==
    /\ LenientRun
    /\ iteration = 2
    /\ \E t \in RunningTasks :
        /\ Kind(t) = "lparse"
        /\ IterOf(t) = 2
        /\ TaskId("gen", 1, FileOf(t)) \in DOMAIN tasks

\* C18: a run whose setup check passed and that found no file to process ends
\* with completed true, parsedFiles empty and a duration of at least 0, no
\* task submitted, the parser settings not initialised and no macros file.
C18_EmptyFileSet ==
    (pc = "done" /\ setupOk /\ toProcessFiles = {}) =>
        /\ completed
        /\ parsedFiles = <<>>
        /\ duration >= 0
        /\ tasks = <<>>
        /\ generationTasks = <<>>
        /\ ~parserSettingsInit
        /\ ~macrosFileGenerated

\* C18 witness: such a run has returned, some time having passed.
C18_Witness ==
    /\ pc = "done"
    /\ setupOk
    /\ toProcessFiles = {}
    /\ duration > 0

\* The error says the file does not exist or has no translation unit.
IsIOError(e) ==
    e[1] \in {"File <file> doesn't exist.",
              "Failed to initialize translation unit for file: <file>"}

\* The file is in the batch of a second or later iteration and its parse task
\* of this iteration has not been picked up yet.
AboutToBeParsedAgain(f) ==
    /\ iteration >= 2
    /\ f \in hist[iteration].batch
    /\ f \notin hist[iteration].failed \cup hist[iteration].parsedOk

\* C19: a file whose latest parse returned an IO error is not in the retry set
\* and is not in the batch of a later iteration.
C19_IOErrorsNotRequeued ==
    StrictRun =>
        \A f \in toProcessFiles :
            (lastErrors[f] # <<>>
             /\ \A e \in Range(lastErrors[f]) : IsIOError(e)) =>
                /\ f \notin filesLeftToProcess
                /\ ~AboutToBeParsedAgain(f)

\* C20: a file whose latest parse returned 'failed to split class footer macro
\* pattern' is not in the batch of a later iteration.
C20_ConfigurationErrorsNotRetried ==
    StrictRun =>
        \A f \in toProcessFiles :
            lastErrors[f] = << <<"failed to split class footer macro pattern">> >>
                => ~AboutToBeParsedAgain(f)

\* The generation tasks a worker picks up in this step.
PickedUp ==
    {g \in DOMAIN tasks :
        /\ Kind(g) = "gen"
        /\ tasks[g].state = "Submitted"
        /\ g \in DOMAIN tasks'
        /\ tasks'[g].state = "Running"}

\* C21: no result is read from a task in progress.  The step in which a
\* generation task calls getDependencyResult finds its dependency Done, and the
\* step in which the driver merges the generation results (getResult) is taken
\* after the last barrier, with every task of the run Done.
C21_NoInProgressResultConsumed ==
    [][/\ \A g \in PickedUp :
             \A d \in tasks[g].deps :
                 d \in DOMAIN tasks /\ tasks[d].state = "Done"
       /\ (pc = "merge" /\ pc' = "done") =>
             /\ joinWorkers
             /\ \A i \in 1..Len(generationTasks) :
                    /\ generationTasks[i] \in DOMAIN tasks
                    /\ tasks[generationTasks[i]].state = "Done"]_vars

\* C21 witness: the driver has merged the results of the generation tasks of
\* two iterations, one of them a success.
C21_Witness ==
    /\ StrictRun
    /\ pc = "done"
    /\ iteration = 2
    /\ Len(generationTasks) = 2
    /\ SucceededGenerations # {}

\* The parse tasks of the iteration are being submitted or run.
AtParseTime == iteration >= 1 /\ pc \in {"submitParse", "joinParse"}

\* C22: in a strict run the artifact of a batch file is overwritten in every
\* iteration: at the parse time of an iteration it holds exactly the '#define'
\* lines of the macros the pre-parse of that iteration reported for the file,
\* and nothing of an earlier iteration.
C22_ArtifactOverwrittenEachIteration ==
    (StrictRun /\ AtParseTime) =>
        \A k \in 1..Len(BatchSeq) :
            artifact[BatchSeq[k]] = DefineLines(fileMacrosToDefine[k])

\* s ends with t.
EndsWith(s, t) ==
    Len(s) >= Len(t) /\ SubSeq(s, Len(s) - Len(t) + 1, Len(s)) = t

\* The parse tasks of the running iteration the pool holds.
SubmittedParses ==
    {t \in DOMAIN tasks : Kind(t) = "parse" /\ IterOf(t) = iteration}

\* This step appends a '#define' line to the artifact of f.
WritesDefine(f) ==
    /\ Len(artifact'[f]) > Len(artifact[f])
    /\ artifact'[f][Len(artifact'[f])][1] = "define"

\* This step truncates an artifact.
Truncates ==
    /\ iteration \in DOMAIN hist
    /\ Len(hist') = Len(hist)
    /\ hist'[iteration].truncated # hist[iteration].truncated

\* C23: in a strict iteration every '#define' line is written after all
\* pre-parse tasks of the iteration are Done and before any parse task of the
\* iteration exists to be started, so that every parse task finds the defines
\* of its batch in place; and no artifact is truncated until all parse tasks
\* of the iteration are Done.
C23_DefinesInPlaceBeforeParsing ==
    /\ []((StrictRun /\ AtParseTime /\ SubmittedParses # {}) =>
            /\ AllBatchDone("pre")
            /\ \A k \in 1..Len(BatchSeq) :
                   EndsWith(artifact[BatchSeq[k]],
                            DefineLines(fileMacrosToDefine[k])))
    /\ [][/\ \A f \in Files :
                WritesDefine(f) =>
                    AllBatchDone("pre") /\ SubmittedParses = {}
          /\ Truncates => AllBatchDone("parse")]_vars

\* C23 witness: a parse task runs in a batch of two files while the artifact
\* of one of them holds the define its pre-parse asked for.
C23_Witness ==
    /\ StrictRun
    /\ AtParseTime
    /\ Cardinality(filesToProcessThisIteration) = 2
    /\ \E t \in SubmittedParses : tasks[t].state = "Running"
    /\ \E k \in 1..Len(BatchSeq) :
          /\ fileMacrosToDefine[k] # {}
          /\ artifact[BatchSeq[k]] # <<>>

\* s is the beginning of t.
IsPrefix(s, t) == Len(s) <= Len(t) /\ SubSeq(t, 1, Len(s)) = s

\* The macros an artifact defines.
DefinedMacros(content) ==
    {content[i][2] :
        i \in {j \in 1..Len(content) : content[j][1] = "define"}}

\* The file is in the batch before the parse barrier, or in the retry set: its
\* parse has not succeeded.
Retained(f) ==
    /\ StrictRun
    /\ \/ f \in filesLeftToProcess
       \/ /\ f \in filesToProcessThisIteration
          /\ pc \in {"submitPre", "joinPre", "define", "submitParse",
                     "joinParse"}

Filtered == getErrors(toParseFile, translationUnit, codeGenSettings, {})

\* A translation unit was created for the call.
UnitParsed == fileStatus.exists /\ fileStatus.tuOk

\* C25: parseFailOnErrors walks the cursor tree only when the filtered
\* diagnostics are empty.  If getErrors returns an error or leaves a not-found
\* macro name, the tree is not walked (no entity is recorded) and
\* out_result.errors is the returned error strings followed by one
\* "Unknown macro: X" for each not-found macro X.
C25_NoWalkOnFilteredDiagnostics ==
    parserPc = "parsed" =>
        /\ out_result.walked =>
              /\ UnitParsed
              /\ Filtered.errors = <<>>
              /\ Filtered.notFound = {}
        /\ (UnitParsed /\ (Filtered.errors # <<>> \/ Filtered.notFound # {})) =>
              LET n == Len(Filtered.errors)
                  unknown == SubSeq(out_result.errors, n + 1,
                                    Len(out_result.errors))
              IN /\ ~out_result.walked
                 /\ Len(out_result.errors) =
                       n + Cardinality(Filtered.notFound)
                 /\ SubSeq(out_result.errors, 1, n) = Filtered.errors
                 /\ \A i \in 1..Len(unknown) :
                       unknown[i][1] = "Unknown macro: <name>"
                 /\ {unknown[i][2] : i \in 1..Len(unknown)} =
                       Filtered.notFound

\* C25 witness: a call returned without a walk on a unit for which getErrors
\* gave both an error string and a not-found macro.
C25_Witness ==
    /\ parserPc = "parsed"
    /\ UnitParsed
    /\ Filtered.errors # <<>>
    /\ Filtered.notFound # {}
    /\ ~out_result.walked
    /\ Len(out_result.errors) = 2

\* C26: getErrors returns the single error "failed to split class footer macro
\* pattern" exactly when the class footer macro pattern contains no '#'; a
\* pattern with a '#...#' placeholder never produces it.
C26_SplitFailureCondition ==
    parserPc = "returned" =>
        (getErrorsReturn = << <<"failed to split class footer macro pattern">> >>
            <=> find(codeGenSettings.classFooterMacroPattern, <<35>>) = npos)

\* The tasks of the running strict iteration.
IterationTasks ==
    {t \in DOMAIN tasks :
        IterOf(t) = iteration /\ Kind(t) \in {"pre", "parse", "gen"}}

\* C27: in a strict iteration the containers indexed by position stay aligned
\* per file, also when files are skipped by the generation loop: the slot of
\* every pre-parse, parse and generation task is the position of its file in
\* the batch, parsingTasks holds the parse task of the k-th file at k, the
\* generation task of F depends on the parse task of F, and the macros kept
\* for a position and the defines written to the artifact of F are those of
\* the pre-parse of F.
C27_PerFileIndexAlignment ==
    (StrictRun /\ iteration >= 1) =>
        /\ \A t \in IterationTasks :
              /\ tasks[t].slot \in 1..Len(BatchSeq)
              /\ BatchSeq[tasks[t].slot] = FileOf(t)
              /\ Kind(t) = "gen" =>
                    tasks[t].deps = {TaskId("parse", iteration, FileOf(t))}
        /\ pc \in {"submitParse", "joinParse", "submitGen", "joinGen"} =>
              \A k \in 1..Len(parsingTasks) :
                  parsingTasks[k] = TaskId("parse", iteration, BatchSeq[k])
        /\ \A k \in 1..Len(fileMacrosToDefine) :
              fileMacrosToDefine[k] \subseteq
                  {getHeaderFileFooterMacro(BatchSeq[k])}
        /\ \A f \in Files :
              DefinedMacros(artifact[f]) \subseteq {getHeaderFileFooterMacro(f)}

\* C27 witness: in a batch of two files the first was skipped by the
\* generation loop, its artifact holding its define, and the generation task
\* of the second was submitted.
C27_Witness ==
    /\ StrictRun
    /\ filesToProcessThisIteration = {1, 2}
    /\ 1 \in filesLeftToProcess
    /\ artifact[1] # <<>>
    /\ TaskId("gen", iteration, 2) \in DOMAIN tasks

\* The files for which the pool holds a task of this kind in the running
\* iteration.
FilesWithTask(kind) ==
    {FileOf(t) : t \in {u \in DOMAIN tasks :
                            Kind(u) = kind /\ IterOf(u) = iteration}}

\* The number of batches the file has been in.
BatchCount(f) == Cardinality({i \in 1..Len(hist) : f \in hist[i].batch})

\* C28: in a strict run the retry set is always within the running batch,
\* every batch is within the batch before it and within the input set, the
\* iteration order of a batch names each of its files once, and each file of a
\* batch gets one pre-parse task and one parse task in that iteration, no
\* other file gets any.
C28_BatchContainment ==
    (StrictRun /\ iteration >= 1) =>
        /\ filesLeftToProcess \subseteq filesToProcessThisIteration
        /\ filesToProcessThisIteration = hist[iteration].batch
        /\ hist[1].batch \subseteq toProcessFiles
        /\ \A i \in 2..Len(hist) : hist[i].batch \subseteq hist[i - 1].batch
        /\ Len(BatchSeq) = Cardinality(filesToProcessThisIteration)
        /\ Range(BatchSeq) = filesToProcessThisIteration
        /\ FilesWithTask("pre") \subseteq filesToProcessThisIteration
        /\ FilesWithTask("parse") \subseteq filesToProcessThisIteration
        /\ pc # "submitPre" =>
              FilesWithTask("pre") = filesToProcessThisIteration
        /\ pc \notin {"submitPre", "joinPre", "define", "submitParse"} =>
              /\ FilesWithTask("parse") = filesToProcessThisIteration
              /\ Len(parsingTasks) = Cardinality(filesToProcessThisIteration)
              /\ \A f \in toProcessFiles : ParsedCount(f) = BatchCount(f)

\* C28 witness: at the parse barrier of a second iteration the retry set and
\* the batch are the one file that failed in a first batch of two.
C28_Witness ==
    /\ StrictRun
    /\ iteration = 2
    /\ pc = "submitGen"
    /\ Cardinality(hist[1].batch) = 2
    /\ Cardinality(filesToProcessThisIteration) = 1
    /\ filesLeftToProcess = filesToProcessThisIteration

\* The number of generation tasks submitted for the file over the run.
GenerationCount(f) ==
    Cardinality({i \in 1..Len(generationTasks) :
                    FileOf(generationTasks[i]) = f})

\* The iterations in which the parse of the file succeeded.
ParsedOkIterations(f) == {i \in 1..Len(hist) : f \in hist[i].parsedOk}

\* C29: over a strict run a file gets at most one generation task, and when
\* the loop is left it has got exactly one if and only if its parse succeeded
\* in some iteration; once its generation task is submitted the file is in no
\* later batch and its artifact is not truncated again.
C29_OneGenerationPerFile ==
    StrictRun =>
        \A f \in toProcessFiles :
            /\ GenerationCount(f) <= 1
            /\ LoopLeft =>
                  (GenerationCount(f) = 1 <=> ParsedOkIterations(f) # {})
            /\ \A i \in 1..Len(hist) :
                  f \in hist[i].generated =>
                      \A j \in (i + 1)..Len(hist) :
                          /\ f \notin hist[j].batch
                          /\ f \notin hist[j].truncated

\* The file failed a parse and succeeded in a later iteration.
ResolvedLater(f) ==
    \E i \in 1..Len(hist) :
        /\ f \in hist[i].failed
        /\ \E j \in (i + 1)..Len(hist) : f \in hist[j].parsedOk

\* C30: when the strict loop is left, parsingResultsOfFailedFiles holds exactly
\* the errors recorded in the final iteration, each once, and is non-empty if
\* and only if the retry set is; the errors of a file that failed earlier and
\* parsed later are not logged and do not make completed false.
C30_OnlyLastIterationErrorsSurvive ==
    (StrictRun /\ LoopLeft) =>
        /\ \A k \in 1..Len(parsingResultsOfFailedFiles) :
              LET f == parsingResultsOfFailedFiles[k][1]
                  e == parsingResultsOfFailedFiles[k][2]
              IN f \in hist[iteration].failed /\ e \in Range(lastErrors[f])
        /\ \A f \in hist[iteration].failed :
              \A e \in Range(lastErrors[f]) : RecordedCount(f, e) = 1
        /\ parsingResultsOfFailedFiles # <<>> <=> filesLeftToProcess # {}
        /\ \A f \in toProcessFiles :
              ResolvedLater(f) =>
                  \A k \in 1..Len(logLines) : logLines[k][1] # f
        /\ (/\ pc = "done"
            /\ hist[iteration].failed = {}
            /\ \A i \in 1..Len(generationTasks) :
                   tasks[generationTasks[i]].result.completed)
              => completed

\* The parse tasks this step submits to the pool.
NewParses ==
    {t \in DOMAIN tasks' \ DOMAIN tasks : Kind(t) \in {"parse", "lparse"}}

\* C31: parsedFiles counts parse submissions.  When a run is over, a file is
\* in parsedFiles once per strict iteration whose batch it was in, and
\* iterationCount times in lenient mode, whatever its parses answered.  Every
\* step that submits a parse task appends its file, and parsedFiles changes in
\* no other step: it is a step of the driver, that moves no task.
C31_ParsedFilesCountsSubmissions ==
    /\ []((pc = "done" /\ StrictRun) =>
            \A f \in Files : ParsedCount(f) = BatchCount(f))
    /\ []((pc = "done" /\ LenientRun) =>
            \A f \in Files :
                ParsedCount(f) = IF f \in toProcessFiles
                                 THEN iterationCount ELSE 0)
    /\ [][(parsedFiles' # parsedFiles \/ NewParses # {}) =>
             /\ pc \in {"submitParse", "lenientSubmit"}
             /\ \E t \in NewParses :
                   /\ NewParses = {t}
                   /\ parsedFiles' = Append(parsedFiles, FileOf(t))
             /\ \A t \in DOMAIN tasks : tasks'[t] = tasks[t]]_vars

\* C31 witness: a strict run is over in which a file was parsed twice and
\* failed both times.
C31_Witness ==
    /\ StrictRun
    /\ pc = "done"
    /\ \E f \in toProcessFiles :
          /\ ParsedCount(f) = 2
          /\ f \in hist[1].failed
          /\ f \in hist[2].failed

\* The driver is inside a joinWorkers call.
InJoinWorkers == pc \in {"joinPre", "joinParse", "joinGen", "lenientJoin"}

\* C32: no barrier deadlock.  In both engines the driver is inside joinWorkers
\* only with the pool running, and under fair scheduling every joinWorkers
\* call returns, all submitted tasks Done.
C32_NoBarrierDeadlock ==
    /\ [](InJoinWorkers => isRunning)
    /\ InJoinWorkers ~> (~InJoinWorkers /\ joinWorkers)

\* C32 witness: the barrier of a second lenient pass has returned, the tasks
\* of two files Done.
C32_Witness ==
    /\ LenientRun
    /\ pc = "lenientTop"
    /\ iteration = 2
    /\ Cardinality(toProcessFiles) = 2
    /\ DOMAIN tasks # {}
    /\ joinWorkers

\* The live FileParser objects that hold the index handle h.
Owners(h) == {p \in DOMAIN clangIndex : clangIndex[p] = h}

\* C33: over any sequence of default, copy and move constructions and
\* destructions of FileParser objects, every index handle created is either
\* held by exactly one live parser and not disposed, or held by none and
\* disposed exactly once: no handle is shared, leaked or disposed twice.  In a
\* step a live parser loses its handle only by being moved from: it is left
\* with nullptr and the new object holds the handle; a copy gets a handle
\* created in that step.
C33_IndexLifecycle ==
    /\ [](\A h \in DOMAIN indexDisposals :
             Cardinality(Owners(h)) + indexDisposals[h] = 1)
    /\ [](\A p \in DOMAIN clangIndex :
             clangIndex[p] = 0 \/ clangIndex[p] \in DOMAIN indexDisposals)
    /\ [][\A p \in DOMAIN clangIndex \cap DOMAIN clangIndex' :
             clangIndex'[p] # clangIndex[p] =>
                 /\ clangIndex'[p] = 0
                 /\ \E q \in DOMAIN clangIndex' \ DOMAIN clangIndex :
                       clangIndex'[q] = clangIndex[p]]_vars
    /\ [][\A q \in DOMAIN clangIndex' \ DOMAIN clangIndex :
             \/ clangIndex'[q] \in
                   DOMAIN indexDisposals' \ DOMAIN indexDisposals
             \/ \E p \in DOMAIN clangIndex :
                   clangIndex[p] = clangIndex'[q] /\ clangIndex'[p] = 0]_vars

\* C33 witness: a parser was copied and the copy moved from; the source was
\* destroyed and its index disposed; the moved-from copy is alive with nullptr
\* and the object it was moved to holds the index of the copy, not disposed.
C33_Witness ==
    /\ Cardinality(DOMAIN indexDisposals) = 2
    /\ \E h \in DOMAIN indexDisposals : indexDisposals[h] = 1
    /\ \E p \in DOMAIN clangIndex, q \in DOMAIN clangIndex :
          /\ DOMAIN clangIndex = {p, q}
          /\ clangIndex[p] = 0
          /\ clangIndex[q] # 0
          /\ indexDisposals[clangIndex[q]] = 0

====
